---------------------------- MODULE Spec2Model ----------------------------
(***************************************************************************)
(* Model of graph_evolution/organism.py: the Organism entity, its          *)
(* genotype -> phenotype transform (sparsify), mutation, traversal-guided  *)
(* crossover, the memoised property/error maps, the feasibility checks     *)
(* and the Pareto comparison.                                              *)
(*                                                                         *)
(* Reals of the unit interval are kept on a grid of 1/Scale; adjacency     *)
(* weights are kept in thousandths, the precision round(.., 3) leaves.     *)
(* Python lists are functions over 0..len-1 (matrices) or sequences        *)
(* (visited, completed).                                                   *)
(***************************************************************************)
EXTENDS Integers, Sequences, FiniteSets, TLC

VARIABLES
    \* xover_traversal_helper, one call
    other,          \* the organism whose graph is walked
    algorithm,      \* "DFS", "BFS" or anything else
    rateFromOther,  \* continue probability, in 1/Scale
    walk,           \* the locals: visited, completed, available, currentNode, pc
    selected,       \* history: the nodes sample() returned so far
    iterations,     \* history: loop bodies executed so far (outer + inner)
    \* makeCrossedCopyWith, a sequence of calls on a population
    population,     \* the organisms that can be parents
    result,         \* what the last call returned or raised
    call,           \* history: the arguments of the last call
    age0,           \* history: each organism's age at construction
    gens,           \* history: the generation values each organism was a parent in
    \* makeMutatedCopy, one call
    parent,         \* the organism copied
    mutationRate,   \* in 1/Scale
    mutationOdds,   \* four weights
    newGenome,      \* the copy being mutated
    cell,           \* <<i, j>> of the loops of lines 89-90
    mutated,        \* what the call returned, once it has
    \* getProperty, getError and the feasibility checks on one organism
    registry,       \* ef.functions applied to the organism: name -> value
    properties,     \* self.properties
    errors,         \* self.errors
    valid,          \* self.valid
    request,        \* history: the last call and its arguments
    returned,       \* what the last call returned or raised
    \* __gt__ and __eq__ on two organisms
    errorsA,        \* one organism's errors
    errorsB,        \* the other's, over the same keys
    keyOrder,       \* the order the keys were inserted in
    verdict         \* the comparisons' results, once made

varsTrav == <<other, algorithm, rateFromOther, walk, selected, iterations>>

varsCross == <<population, result, call, age0, gens>>

varsMut == <<parent, mutationRate, mutationOdds, newGenome, cell, mutated>>

varsErr == <<registry, properties, errors, valid, request, returned>>

varsPar == <<errorsA, errorsB, keyOrder, verdict>>

vars == <<varsTrav, varsCross, varsMut, varsErr, varsPar>>

restTrav == <<varsCross, varsMut, varsErr, varsPar>>

restCross == <<varsTrav, varsMut, varsErr, varsPar>>

restMut == <<varsTrav, varsCross, varsErr, varsPar>>

restErr == <<varsTrav, varsCross, varsMut, varsPar>>

restPar == <<varsTrav, varsCross, varsMut, varsErr>>

---------------------------------------------------------------------------
(* Bounds of the model *)

\* largest numNodes of an organism whose graph is walked
MaxNodes == 2

\* generation indices are 0..MaxGen
MaxGen == 1

\* the length of a distribution-shaped property
DistLen == 5

\* errors compared by __gt__ are 0..MaxErr
MaxErr == 2

---------------------------------------------------------------------------
(* Numbers *)

\* the unit interval is 0..Scale; 1/4 and 1/8 (line 98) are whole on it
Scale == 16

\* outcomes of random(): values of [0, 1), so never Scale
RandomDraws == {0, 8, 12}

\* the cells of a freshly drawn genome (line 59)
GenomeDraws == {0, 8}

Sparsities == {4}

WeightRanges == {<<-1, 1>>}

Abs(x) == IF x < 0 THEN -x ELSE x

Max(a, b) == IF a >= b THEN a ELSE b

Min(a, b) == IF a <= b THEN a ELSE b

\* p/q rounded to the nearest integer, q > 0
Round(p, q) == (2 * p + q) \div (2 * q)

\* the sum of a tuple of integers
RECURSIVE SumSeq(_)
SumSeq(s) == IF s = <<>> THEN 0 ELSE Head(s) + SumSeq(Tail(s))

\* [sum(odds[:k+1]) for k in range(len(odds))]
Thresholds(odds) == [k \in 1..Len(odds) |-> SumSeq(SubSeq(odds, 1, k))]

---------------------------------------------------------------------------
(* sparsify and the constructor *)

\* sparsify(x, percentSparse, outputRange), in thousandths.
\* x and percentSparse are in 1/Scale; with neg = |outputRange[0]| and
\* pos = outputRange[1]:  t1 = neg*(Scale-s)/(pos+neg),  t2 = t1 + s.
Sparsify(x, percentSparse, outputRange) ==
    LET neg == Abs(outputRange[1])
        pos == outputRange[2]
        nonZero == Scale - percentSparse
    IN  IF x <= 0 THEN -1000 * neg
        ELSE IF x * (pos + neg) <= neg * nonZero
             THEN Round(1000 * ((pos + neg) * x - neg * nonZero), nonZero)
        ELSE IF (x - percentSparse) * (pos + neg) <= neg * nonZero
             THEN 0
        ELSE IF x <= Scale
             THEN Round(1000 * ((pos + neg) * (x - percentSparse) - neg * nonZero),
                        nonZero)
        ELSE 1000 * pos

\* Organism.__init__ with a genome given: the fields the operators read.
\* genome is a function over 0..len-1 of rows, each a function over 0..len-1.
Organism(numNodes, sparsity, weightRange, genome, age) ==
    [ age            |-> age,
      clock          |-> -1,
      genotypeMatrix |-> genome,
      numNodes       |-> numNodes,
      sparsity       |-> sparsity,
      weightRange    |-> weightRange,
      adjacencyMatrix |->
          [i \in DOMAIN genome |->
              [j \in DOMAIN genome[i] |->
                  Sparsify(genome[i][j], sparsity, weightRange)]] ]

\* the genomes __init__ can draw for numNodes = n (genome is None)
Genomes(n) == [0..(n - 1) -> [0..(n - 1) -> GenomeDraws]]

\* the organisms a population starts from
NewOrganisms(n, ages) ==
    { Organism(n, s, w, g, a) :
        s \in Sparsities, w \in WeightRanges, g \in Genomes(n), a \in ages }

---------------------------------------------------------------------------
(* xover_traversal_helper *)

Algorithms == {"DFS", "BFS"}

NoNode == -1

\* every element of a sequence
Elems(s) == {s[k] : k \in 1..Len(s)}

\* the comprehension of lines 130-133 without "i not in visited"
CandidatesIgnoringVisited(org, N, currentNode, visited, completed) ==
    { i \in 0..(N - 1) :
        /\ org.adjacencyMatrix[currentNode][i] # 0
        /\ i \notin Elems(completed) }

\* [i for i in range(N) if adjacencyMatrix[currentNode][i] != 0
\*    and i not in visited and i not in completed]
Candidates(org, N, currentNode, visited, completed) ==
    { i \in 0..(N - 1) :
        /\ org.adjacencyMatrix[currentNode][i] # 0
        /\ i \notin Elems(visited)
        /\ i \notin Elems(completed) }

\* the locals after lines 119-126
WalkStart(org) ==
    [ visited     |-> <<>>,
      completed   |-> <<>>,
      available   |-> 0..(Cardinality(DOMAIN org.genotypeMatrix) - 1),
      currentNode |-> NoNode,
      pc          |-> "outer" ]

WalkN(org) == Cardinality(DOMAIN org.genotypeMatrix)

\* the outer while's condition (line 127) for the draw r
OuterCondition(w, org, r, rate) ==
    /\ r <= rate
    /\ Len(w.completed) < WalkN(org)
    /\ w.available # {}

\* lines 128-133 with sample() returning node
SelectNode(w, org, node) ==
    LET vis == Append(w.visited, node)
    IN  [ w EXCEPT !.currentNode = node,
                   !.visited = vis,
                   !.available = Candidates(org, WalkN(org), node, vis, w.completed),
                   !.pc = "inner" ]

\* the inner while's condition (line 134)
InnerCondition(w, org) ==
    /\ w.available = {}
    /\ Len(w.completed) < WalkN(org)
    /\ w.visited # <<>>

\* visited.pop() / visited.popleft(): <<the node returned, what is left>>
PopVisited(visited, alg) ==
    IF alg = "DFS"
    THEN <<visited[Len(visited)], SubSeq(visited, 1, Len(visited) - 1)>>
    ELSE <<Head(visited), Tail(visited)>>

\* lines 135-143
DeadEnd(w, org, alg) ==
    LET comp   == Append(w.completed, w.currentNode)
        popped == PopVisited(w.visited, alg)
    IN  [ w EXCEPT !.completed = comp,
                   !.currentNode = popped[1],
                   !.visited = popped[2],
                   !.available =
                       Candidates(org, WalkN(org), popped[1], popped[2], comp) ]

\* return list(visited) + completed
WalkResult(w) == w.visited \o w.completed

---------------------------------------------------------------------------
(* One call of xover_traversal_helper, a loop test or a loop body a step *)

TravInit ==
    /\ other \in UNION { NewOrganisms(n, {0}) : n \in 1..MaxNodes }
    /\ algorithm \in Algorithms \cup {"invalid"}
    /\ rateFromOther \in {0, 8, Scale}
    /\ walk = [WalkStart(other) EXCEPT !.pc = "start"]
    /\ selected = {}
    /\ iterations = 0

\* lines 120-124
StartWalk ==
    /\ walk.pc = "start"
    /\ walk' = [walk EXCEPT !.pc = IF algorithm \in Algorithms
                                   THEN "outer" ELSE "raised"]
    /\ UNCHANGED <<other, algorithm, rateFromOther, selected, iterations>>
    /\ UNCHANGED restTrav

\* line 127 true, lines 128-133
OuterBody ==
    /\ walk.pc = "outer"
    /\ \E r \in RandomDraws :
         /\ OuterCondition(walk, other, r, rateFromOther)
         /\ \E node \in walk.available :
              /\ walk' = SelectNode(walk, other, node)
              /\ selected' = selected \cup {node}
    /\ iterations' = iterations + 1
    /\ UNCHANGED <<other, algorithm, rateFromOther>>
    /\ UNCHANGED restTrav

\* line 127 false, line 144
OuterExit ==
    /\ walk.pc = "outer"
    /\ \E r \in RandomDraws : ~OuterCondition(walk, other, r, rateFromOther)
    /\ walk' = [walk EXCEPT !.pc = "done"]
    /\ UNCHANGED <<other, algorithm, rateFromOther, selected, iterations>>
    /\ UNCHANGED restTrav

\* line 134 true, lines 135-143
InnerBody ==
    /\ walk.pc = "inner"
    /\ InnerCondition(walk, other)
    /\ walk' = DeadEnd(walk, other, algorithm)
    /\ iterations' = iterations + 1
    /\ UNCHANGED <<other, algorithm, rateFromOther, selected>>
    /\ UNCHANGED restTrav

\* line 134 false
InnerExit ==
    /\ walk.pc = "inner"
    /\ ~InnerCondition(walk, other)
    /\ walk' = [walk EXCEPT !.pc = "outer"]
    /\ UNCHANGED <<other, algorithm, rateFromOther, selected, iterations>>
    /\ UNCHANGED restTrav

---------------------------------------------------------------------------
(* Claims about xover_traversal_helper *)

\* C8: at every dead-end step the node appended to completed is the node
\* removed from the frontier in that step: the most recent one for DFS,
\* the oldest one for BFS.
C8_DeadEndMovesPoppedNode ==
    [][ Len(walk'.completed) = Len(walk.completed) + 1 =>
          /\ walk.visited # <<>>
          /\ walk'.completed[Len(walk'.completed)] =
                IF algorithm = "DFS" THEN walk.visited[Len(walk.visited)]
                                     ELSE Head(walk.visited)
          /\ walk'.visited =
                IF algorithm = "DFS"
                THEN SubSeq(walk.visited, 1, Len(walk.visited) - 1)
                ELSE Tail(walk.visited) ]_vars

\* C9: the returned list holds exactly the nodes sample() selected, each of
\* them once.
C9_ResultIsSelectedOnce ==
    walk.pc = "done" =>
        /\ Elems(WalkResult(walk)) = selected
        /\ Len(WalkResult(walk)) = Cardinality(selected)

\* C10: the call ends, after at most 3N loop bodies (N inner ones, each adding
\* to completed, and 2N outer ones, each adding to visited a node it lacks),
\* whatever the graph, the algorithm and the draws.
C10_Terminates ==
    /\ [](iterations <= 3 * WalkN(other))
    /\ <>(walk.pc \in {"done", "raised"})

\* a walk of two or more nodes that never drew a stop, selected a node anew
\* after popping it and ended with every slot of completed taken
C10_Witness ==
    /\ walk.pc = "done"
    /\ rateFromOther = Scale
    /\ WalkN(other) >= 2
    /\ iterations > 2 * WalkN(other)
    /\ Len(walk.completed) = WalkN(other)

---------------------------------------------------------------------------
(* makeCrossedCopyWith *)

\* the sets of lists xover_traversal_helper(other, rate, alg) can return:
\* the walk above run to its end, over every outcome of the draws
RECURSIVE WalkReturns(_, _, _, _)
WalkReturns(w, org, rate, alg) ==
    IF w.pc = "inner"
    THEN IF InnerCondition(w, org)
         THEN WalkReturns(DeadEnd(w, org, alg), org, rate, alg)
         ELSE WalkReturns([w EXCEPT !.pc = "outer"], org, rate, alg)
    ELSE UNION { IF OuterCondition(w, org, r, rate)
                 THEN UNION { WalkReturns(SelectNode(w, org, node), org, rate, alg) :
                                node \in w.available }
                 ELSE { WalkResult(w) } :
                 r \in RandomDraws }

XoverTraversalHelper(org, rate, alg) == WalkReturns(WalkStart(org), org, rate, alg)

Slots == 1..2

NodeCounts == {1, 2}

\* the genomes a population starts from: every cell the same draw
SeedGenomes(n) == { [i \in 0..(n - 1) |-> [j \in 0..(n - 1) |-> d]] : d \in GenomeDraws }

\* the organisms a population starts from
SeedOrganisms(ages) ==
    UNION { { Organism(n, s, w, g, a) :
                s \in Sparsities, w \in WeightRanges, g \in SeedGenomes(n), a \in ages } :
            n \in NodeCounts }

\* the generation indices a caller passes: they count from 0, above the
\* clock a new organism starts with
Generations == 0..MaxGen

\* the ages organisms are constructed with (line 50: age=0 by default,
\* a parent's age for a child)
InitialAges == {0, 1}

Rates == {0, Scale}

CrossOddsChoices == {<<1, 1, 1>>, <<0, 2, 1>>}

\* xover_traversal_helper's possible returns on the graphs of the population,
\* computed once: a parent's graph never changes
HelperReturns ==
    { [adjacencyMatrix |-> org.adjacencyMatrix, rate |-> rate, algorithm |-> alg,
       lists |-> XoverTraversalHelper(org, rate, alg)] :
        org \in SeedOrganisms({0}), rate \in Rates, alg \in Algorithms }

HelperReturnsOf(org, rate, alg) ==
    (CHOOSE t \in HelperReturns :
        /\ t.adjacencyMatrix = org.adjacencyMatrix
        /\ t.rate = rate
        /\ t.algorithm = alg).lists

\* the bookkeeping without line 151: the clock is never advanced
AgeUpdateClockKept(org, generation) ==
    IF org.clock < generation
    THEN [org EXCEPT !.age = @ + 1]
    ELSE org

\* lines 149-151 (and 152-154): one parent's age bookkeeping
AgeUpdate(org, generation) ==
    IF org.clock < generation
    THEN [org EXCEPT !.age = @ + 1, !.clock = generation]
    ELSE org

\* the sets of rows the loop of lines 163-165 can take from other: row i is
\* taken when its draw is <= rateFromOther
BinaryRowSets(org, rate) ==
    { rows \in SUBSET (0..(org.numNodes - 1)) :
        \A i \in 0..(org.numNodes - 1) :
            IF i \in rows THEN \E r \in RandomDraws : r <= rate
                          ELSE \E r \in RandomDraws : ~(r <= rate) }

\* the sets of rows a crossover of the given type can take from other, given
\* the lists the two traversals can return (lines 161, 166 and 171)
CrossRowSets(selfOrg, rate, crossoverType, crossoverThresholds, dfs, bfs) ==
    IF crossoverType <= crossoverThresholds[1]
    THEN BinaryRowSets(selfOrg, rate)
    ELSE IF crossoverType <= crossoverThresholds[2]
    THEN { Elems(crossNodes) : crossNodes \in dfs }
    ELSE IF crossoverType <= crossoverThresholds[3]
    THEN { Elems(crossNodes) : crossNodes \in bfs }
    ELSE { {} }

\* newGenome[i] = deepcopy(other.genotypeMatrix[i]) for the rows taken: the call
\* raises IndexError when a row is missing in either genome, else returns the child
CrossedCopy(selfOrg, otherOrg, rows) ==
    IF \E i \in rows : i \notin DOMAIN otherOrg.genotypeMatrix
                       \/ i \notin DOMAIN selfOrg.genotypeMatrix
    THEN [kind |-> "IndexError"]
    ELSE [kind |-> "child",
          child |-> Organism(selfOrg.numNodes, selfOrg.sparsity, selfOrg.weightRange,
                             [i \in DOMAIN selfOrg.genotypeMatrix |->
                                 IF i \in rows THEN otherOrg.genotypeMatrix[i]
                                               ELSE selfOrg.genotypeMatrix[i]],
                             Max(selfOrg.age, otherOrg.age))]

\* what selfOrg.makeCrossedCopyWith(otherOrg, rate, crossOdds, ..) can return
\* or raise once the ages are updated (lines 156-177)
CrossedCopies(selfOrg, otherOrg, rate, crossOdds) ==
    LET dfs == HelperReturnsOf(otherOrg, rate, "DFS")
        bfs == HelperReturnsOf(otherOrg, rate, "BFS")
        crossoverThresholds == Thresholds(crossOdds)
    IN  { CrossedCopy(selfOrg, otherOrg, rows) :
            rows \in UNION { CrossRowSets(selfOrg, rate, crossoverType,
                                          crossoverThresholds, dfs, bfs) :
                             crossoverType \in 1..SumSeq(crossOdds) } }

CrossInit ==
    /\ population \in [Slots -> SeedOrganisms(InitialAges)]
    /\ result = [kind |-> "none"]
    /\ call = [self |-> 0, other |-> 0, generation |-> 0, repeated |-> FALSE]
    /\ age0 = [s \in Slots |-> population[s].age]
    /\ gens = [s \in Slots |-> {}]

\* population[s].makeCrossedCopyWith(population[o], rate, crossOdds, generation),
\* with a generation no lower than the last call's
MakeCrossedCopyWith(s, o, rate, crossOdds, generation) ==
    LET aged1  == [population EXCEPT ![s] = AgeUpdate(population[s], generation)]
        aged   == [aged1 EXCEPT ![o] = AgeUpdate(aged1[o], generation)]
    IN  /\ generation >= call.generation
        /\ population' = aged
        /\ result' \in CrossedCopies(aged[s], aged[o], rate, crossOdds)
        /\ call' = [self |-> s, other |-> o, generation |-> generation,
                    repeated |-> generation \in gens[s]]
        /\ gens' = [x \in Slots |-> IF x \in {s, o} THEN gens[x] \cup {generation}
                                                   ELSE gens[x]]
        /\ UNCHANGED age0
        /\ UNCHANGED restCross

Cross ==
    \E s \in Slots, o \in Slots, rate \in Rates,
       crossOdds \in CrossOddsChoices, generation \in Generations :
        MakeCrossedCopyWith(s, o, rate, crossOdds, generation)

---------------------------------------------------------------------------
(* Claims about makeCrossedCopyWith *)

\* C1: over calls with non-decreasing generations an organism's age grows by
\* the number of distinct generation values of the calls it was a parent in
\* (as self, as other or as both); a repeated generation adds nothing.
C1_AgeCountsGenerations ==
    \A s \in Slots : population[s].age = age0[s] + Cardinality(gens[s])

\* an organism crossed with itself in a generation it was already a parent
\* in, after it was a parent in two distinct generations
C1_Witness ==
    /\ call.self # 0
    /\ call.self = call.other
    /\ call.repeated
    /\ Cardinality(gens[call.self]) >= 2
    /\ population[call.self].age = age0[call.self] + 2

\* C4: a call on two parents whose numNodes differ fails; it never returns
\* a child.
C4_MismatchNeverReturnsChild ==
    (/\ call.self # 0
     /\ population[call.self].numNodes # population[call.other].numNodes)
        => result.kind # "child"

---------------------------------------------------------------------------
(* makeMutatedCopy, a cell of the genome a step *)

\* (random()/4) - (1/8) for the draw d, in 1/Scale
Offset(d) == (d \div 4) - (Scale \div 8)

\* min(1, max(0, x))
Clamp(x) == Min(Scale, Max(0, x))

MutationOddsChoices == {<<1, 1, 1, 1>>, <<0, 0, 2, 1>>}

MutInit ==
    /\ parent \in SeedOrganisms(InitialAges)
    /\ mutationRate \in {0, 8}
    /\ mutationOdds \in MutationOddsChoices
    /\ newGenome = parent.genotypeMatrix
    /\ cell = <<0, 0>>
    /\ mutated = [kind |-> "none"]

\* the cell the loops visit after <<i, j>>; <<numNodes, 0>> after the last
NextCell(c, numNodes) ==
    IF c[2] + 1 < numNodes THEN <<c[1], c[2] + 1>> ELSE <<c[1] + 1, 0>>

InLoop == mutated.kind = "none" /\ cell[1] < parent.numNodes

\* line 91 false
KeepCell ==
    /\ InLoop
    /\ \E r \in RandomDraws : ~(r <= mutationRate)
    /\ cell' = NextCell(cell, parent.numNodes)
    /\ UNCHANGED <<parent, mutationRate, mutationOdds, newGenome, mutated>>
    /\ UNCHANGED restMut

\* line 91 true and randint(1, sum(mutationOdds)) returning mutationType
Mutates(mutationType) ==
    /\ InLoop
    /\ \E r \in RandomDraws : r <= mutationRate
    /\ mutationType \in 1..SumSeq(mutationOdds)

\* lines 93-95
PointMutation ==
    \E mutationType \in 1..SumSeq(mutationOdds), d \in RandomDraws :
        /\ Mutates(mutationType)
        /\ mutationType <= Thresholds(mutationOdds)[1]
        /\ newGenome' = [newGenome EXCEPT ![cell[1]][cell[2]] = d]
        /\ cell' = NextCell(cell, parent.numNodes)
        /\ UNCHANGED <<parent, mutationRate, mutationOdds, mutated>>
        /\ UNCHANGED restMut

\* lines 96-99
OffsetMutation ==
    \E mutationType \in 1..SumSeq(mutationOdds), d \in RandomDraws :
        /\ Mutates(mutationType)
        /\ ~(mutationType <= Thresholds(mutationOdds)[1])
        /\ mutationType <= Thresholds(mutationOdds)[2]
        /\ newGenome' = [newGenome EXCEPT ![cell[1]][cell[2]] = Clamp(@ + Offset(d))]
        /\ cell' = NextCell(cell, parent.numNodes)
        /\ UNCHANGED <<parent, mutationRate, mutationOdds, mutated>>
        /\ UNCHANGED restMut

\* lines 100-102
SignFlipMutation ==
    \E mutationType \in 1..SumSeq(mutationOdds) :
        /\ Mutates(mutationType)
        /\ ~(mutationType <= Thresholds(mutationOdds)[2])
        /\ mutationType <= Thresholds(mutationOdds)[3]
        /\ newGenome' = [newGenome EXCEPT ![cell[1]][cell[2]] = Scale - @]
        /\ cell' = NextCell(cell, parent.numNodes)
        /\ UNCHANGED <<parent, mutationRate, mutationOdds, mutated>>
        /\ UNCHANGED restMut

\* lines 103-109
WeightSwapMutation ==
    \E mutationType \in 1..SumSeq(mutationOdds),
       iswap \in 0..(parent.numNodes - 1), jswap \in 0..(parent.numNodes - 1) :
        /\ Mutates(mutationType)
        /\ ~(mutationType <= Thresholds(mutationOdds)[3])
        /\ mutationType <= Thresholds(mutationOdds)[4]
        /\ LET edge1 == newGenome[cell[1]][cell[2]]
               moved == [newGenome EXCEPT ![cell[1]][cell[2]] = newGenome[iswap][jswap]]
           IN  newGenome' = [moved EXCEPT ![iswap][jswap] = edge1]
        /\ cell' = NextCell(cell, parent.numNodes)
        /\ UNCHANGED <<parent, mutationRate, mutationOdds, mutated>>
        /\ UNCHANGED restMut

\* lines 114-115: the sparsity drifts when its draw is <= mutationRate
ReturnMutatedCopy ==
    /\ mutated.kind = "none"
    /\ cell[1] = parent.numNodes
    /\ \E r \in RandomDraws, d \in RandomDraws :
         LET newSparsity == IF r > mutationRate THEN parent.sparsity
                            ELSE Clamp(parent.sparsity + Offset(d))
         IN  mutated' = [kind |-> "child",
                         child |-> Organism(parent.numNodes, newSparsity,
                                            parent.weightRange, newGenome, parent.age)]
    /\ UNCHANGED <<parent, mutationRate, mutationOdds, newGenome, cell>>
    /\ UNCHANGED restMut

---------------------------------------------------------------------------
(* Claims about makeMutatedCopy *)

\* C5: with mutationRate = 0 the copy's genome equals the parent's cell for
\* cell and its age equals the parent's, whatever the odds and the draws.
C5_ZeroRateCopiesGenome ==
    (mutated.kind = "child" /\ mutationRate = 0) =>
        /\ mutated.child.genotypeMatrix = parent.genotypeMatrix
        /\ mutated.child.age = parent.age

---------------------------------------------------------------------------
(* getProperty, getError, check_constraints_distribution, check_constraint *)

\* the names propertyName.endswith("_distribution") holds of
DistributionNames == {"degree_distribution"}

\* line 196
PairNames == {"topology", "weights"}

\* the names ef.functions has an evaluator for; any other raises KeyError
RegisteredNames == {"degree_distribution", "topology", "connectance"}

RequestNames == RegisteredNames \cup {"unregistered"}

\* what the evaluators return for the organism: a sequence, a (mean, std)
\* pair, a scalar
Registries ==
    { [n \in RegisteredNames |->
          IF n \in DistributionNames THEN dist
          ELSE IF n \in PairNames THEN <<1, 1>>
          ELSE 1] :
      dist \in { [i \in 1..DistLen |-> 1],
                 [i \in 1..DistLen |-> IF i = 1 THEN 3 ELSE 1] } }

\* targets of a distribution: the first k positions 3, the others 1
StepTargets == { [i \in 1..DistLen |-> IF i <= k THEN 3 ELSE 1] : k \in {0, 1, 2} }

\* a target or range one position short of the distribution
ShortSeq == [i \in 1..(DistLen - 1) |-> 1]

ConstRanges == { [i \in 1..DistLen |-> s] : s \in {0, 1} }

\* the arguments of the getError calls made: _range is None when not ranged
ErrorRequests ==
    { [name |-> n, target |-> t, range |-> r, ranged |-> TRUE] :
        n \in DistributionNames, t \in StepTargets \cup {ShortSeq},
        r \in ConstRanges \cup {ShortSeq} }
    \cup { [name |-> n, target |-> t, range |-> <<>>, ranged |-> FALSE] :
        n \in DistributionNames, t \in StepTargets \cup {ShortSeq} }
    \cup { [name |-> "topology", target |-> t, range |-> r, ranged |-> TRUE] :
        t \in {1, 2}, r \in {1, 2} }
    \cup { [name |-> "topology", target |-> t, range |-> 0, ranged |-> FALSE] :
        t \in {1, 2} }
    \cup { [name |-> n, target |-> t, range |-> 0, ranged |-> FALSE] :
        n \in {"connectance", "unregistered"}, t \in {0, 1} }

\* sigma of line 274
sigma == 2

\* map[key] = value
Store(map, key, value) ==
    [k \in DOMAIN map \cup {key} |-> IF k = key THEN value ELSE map[k]]

\* a guard that always recomputes
NeverMemoised(map, name) == FALSE

\* the guards of lines 181 and 187, negated: name in map
Memoised(map, name) == name \in DOMAIN map

\* line 277 with "and" for "or"
OutOfRangeBoth(value, mean, std) ==
    value < mean - sigma * std /\ value > mean + sigma * std

\* line 277
OutOfRange(value, mean, std) ==
    value < mean - sigma * std \/ value > mean + sigma * std

\* check_constraints_distribution assigning the outcome of the test to valid
CheckConstraintsDistributionAssigning(v, dist, mean, std) ==
    IF Len(mean) < Len(dist) \/ Len(std) < Len(dist) \/ Len(dist) = 0
    THEN [raised |-> TRUE, valid |-> v]
    ELSE LET num_invalid ==
                 Cardinality({ i \in 1..Len(dist) : OutOfRange(dist[i], mean[i], std[i]) })
         IN  [raised |-> FALSE, valid |-> ~(5 * num_invalid > Len(dist))]

\* check_constraints_distribution(dist, mean, std) with eps = 0.2 on an
\* organism whose valid is v: [raised, valid].  num_invalid/len(dist) > 1/5
\* is 5 * num_invalid > len(dist).
CheckConstraintsDistribution(v, dist, mean, std) ==
    IF Len(mean) < Len(dist) \/ Len(std) < Len(dist) \/ Len(dist) = 0
    THEN [raised |-> TRUE, valid |-> v]
    ELSE LET num_invalid ==
                 Cardinality({ i \in 1..Len(dist) : OutOfRange(dist[i], mean[i], std[i]) })
         IN  [raised |-> FALSE,
              valid  |-> IF 5 * num_invalid > Len(dist) THEN FALSE ELSE v]

\* intersecting_area, in 1/Scale: the whole area for two equal distributions,
\* else whatever the numeric integration returns (sampled)
IntersectingAreas(mu1, sigma1, mu2, sigma2) ==
    IF mu1 = mu2 /\ sigma1 = sigma2 THEN {Scale} ELSE {0, 13, 14}

\* check_constraint with eps = 0.75 and intersecting_area returning area:
\* area/(2 - area) < 3/4 is 4 * area < 3 * (2 - area)
CheckConstraint(v, area) ==
    IF 4 * area < 3 * (2 * Scale - area) THEN FALSE ELSE v

\* getProperty(name) on the maps given: [raised, properties, value]
GetPropertyOn(props, name) ==
    IF Memoised(props, name)
    THEN [raised |-> FALSE, properties |-> props, value |-> props[name]]
    ELSE IF name \in DOMAIN registry
    THEN [raised |-> FALSE, properties |-> Store(props, name, registry[name]),
          value |-> registry[name]]
    ELSE [raised |-> TRUE, properties |-> props, value |-> 0]

\* sum([(dist[i]-target[i])**2 for i in range(len(dist))])
RECURSIVE SumSquares(_, _, _)
SumSquares(dist, target, i) ==
    IF i > Len(dist) THEN 0
    ELSE (dist[i] - target[i]) * (dist[i] - target[i]) + SumSquares(dist, target, i + 1)

Raised(props, errs, v) ==
    [properties |-> props, errors |-> errs, valid |-> v, returned |-> [kind |-> "raised"]]

Returned(props, errs, v, value) ==
    [properties |-> props, errors |-> errs, valid |-> v,
     returned |-> [kind |-> "value", value |-> value]]

\* getError(req.name, req.target, req.range), intersecting_area returning area
GetErrorOn(req, area) ==
    IF Memoised(errors, req.name)
    THEN Returned(properties, errors, valid, errors[req.name])
    ELSE LET got == GetPropertyOn(properties, req.name)
         IN  IF got.raised THEN Raised(properties, errors, valid)
             ELSE IF req.name \in DistributionNames
             THEN IF Len(req.target) < Len(got.value)
                  THEN Raised(got.properties, errors, valid)
                  ELSE LET error == SumSquares(got.value, req.target, 1)
                           errs  == Store(errors, req.name, error)
                           check == CheckConstraintsDistribution(
                                        valid, got.value, req.target, req.range)
                       IN  IF ~req.ranged
                           THEN Returned(got.properties, errs, valid, error)
                           ELSE IF check.raised
                           THEN Raised(got.properties, errs, valid)
                           ELSE Returned(got.properties, errs, check.valid, error)
             ELSE IF req.name \in PairNames
             THEN IF ~req.ranged
                  THEN Raised(got.properties, errors, valid)
                  ELSE LET mean  == got.value[1]
                           std   == got.value[2]
                           error == (mean - req.target) * (mean - req.target)
                                    + (std - req.range) * (std - req.range)
                       IN  Returned(got.properties, Store(errors, req.name, error),
                                    CheckConstraint(valid, area), error)
             ELSE LET error == (got.value - req.target) * (got.value - req.target)
                  IN  Returned(got.properties, Store(errors, req.name, error),
                               valid, error)

\* the areas intersecting_area can return in getError(req.name, ..)
AreasFor(req) ==
    IF req.name \in PairNames /\ req.name \in DOMAIN registry /\ req.ranged
    THEN IntersectingAreas(registry[req.name][1], registry[req.name][2],
                           req.target, req.range)
    ELSE {Scale}

ErrInit ==
    /\ registry \in Registries
    /\ properties = <<>>
    /\ errors = <<>>
    /\ valid = TRUE
    /\ request = [op |-> "none", name |-> "", target |-> 0, range |-> 0,
                  ranged |-> FALSE, computed |-> FALSE]
    /\ returned = [kind |-> "none"]

GetProperty ==
    \E name \in RequestNames :
        LET got == GetPropertyOn(properties, name)
        IN  /\ properties' = got.properties
            /\ returned' = IF got.raised THEN [kind |-> "raised"]
                           ELSE [kind |-> "value", value |-> got.value]
            /\ request' = [op |-> "getProperty", name |-> name, target |-> 0,
                           range |-> 0, ranged |-> FALSE, computed |-> FALSE]
            /\ UNCHANGED <<registry, errors, valid>>
            /\ UNCHANGED restErr

GetError ==
    \E req \in ErrorRequests : \E area \in AreasFor(req) :
        LET out == GetErrorOn(req, area)
        IN  /\ properties' = out.properties
            /\ errors' = out.errors
            /\ valid' = out.valid
            /\ returned' = out.returned
            /\ request' = [op |-> "getError", name |-> req.name, target |-> req.target,
                           range |-> req.range, ranged |-> req.ranged,
                           computed |-> req.name \notin DOMAIN errors]
            /\ UNCHANGED registry
            /\ UNCHANGED restErr

\* a direct call check_constraints_distribution(dist, mean, std)
CheckDistribution ==
    \E name \in DistributionNames, mean \in StepTargets,
       std \in ConstRanges \cup {ShortSeq} :
        LET check == CheckConstraintsDistribution(valid, registry[name], mean, std)
        IN  /\ valid' = check.valid
            /\ returned' = IF check.raised THEN [kind |-> "raised"]
                           ELSE [kind |-> "value", value |-> 0]
            /\ request' = [op |-> "check_constraints_distribution", name |-> name,
                           target |-> mean, range |-> std, ranged |-> TRUE,
                           computed |-> FALSE]
            /\ UNCHANGED <<registry, properties, errors>>
            /\ UNCHANGED restErr

\* a direct call check_constraint(mean, target_mean, std, target_std)
CheckPair ==
    \E target_mean \in {1, 2}, target_std \in {1, 2} :
      \E area \in IntersectingAreas(registry["topology"][1], registry["topology"][2],
                                    target_mean, target_std) :
        /\ valid' = CheckConstraint(valid, area)
        /\ returned' = [kind |-> "value", value |-> 0]
        /\ request' = [op |-> "check_constraint", name |-> "topology",
                       target |-> target_mean, range |-> target_std, ranged |-> TRUE,
                       computed |-> FALSE]
        /\ UNCHANGED <<registry, properties, errors>>
        /\ UNCHANGED restErr

---------------------------------------------------------------------------
(* Claims about the maps and the feasibility flag *)

C3_MapsWriteOnce ==
    [][ /\ \A k \in DOMAIN properties :
              k \in DOMAIN properties' /\ properties'[k] = properties[k]
        /\ \A k \in DOMAIN errors :
              k \in DOMAIN errors' /\ errors'[k] = errors[k]
        /\ (request'.op = "getError" /\ request'.name \in DOMAIN errors) =>
              returned' = [kind |-> "value", value |-> errors[request'.name]] ]_vars

\* a later getError whose target would give another error than the one returned
C3_Witness ==
    /\ request.op = "getError"
    /\ ~request.computed
    /\ request.name \in DistributionNames
    /\ Len(request.target) = DistLen
    /\ returned.kind = "value"
    /\ returned.value # SumSquares(registry[request.name], request.target, 1)

\* the last call was getError(name, target, range) on a distribution name,
\* with range given, and more than 0.2 of the positions have the property
\* value outside target[i] +- 2 range[i]
RangedCallExceedsEps ==
    /\ request.op = "getError"
    /\ request.name \in DistributionNames
    /\ request.ranged
    /\ returned.kind = "value"
    /\ Len(request.target) = DistLen
    /\ Len(request.range) = DistLen
    /\ 5 * Cardinality({ i \in 1..DistLen :
              \/ registry[request.name][i] < request.target[i] - 2 * request.range[i]
              \/ registry[request.name][i] > request.target[i] + 2 * request.range[i] })
          > DistLen

\* C7 as stated: after every ranged getError on a distribution name, earlier
\* calls for the name or not, valid is false when more than eps of the
\* positions are outside the range.
C7_EveryRangedCallTests == RangedCallExceedsEps => ~valid

\* C7: the ranged getError that computes the error of the name applies the
\* distribution test; a getError for a name whose error is already stored
\* leaves valid as it was.
C7_ComputingCallTests ==
    /\ []((RangedCallExceedsEps /\ request.computed) => ~valid)
    /\ [][(request'.op = "getError" /\ ~request'.computed) => valid' = valid]_vars

\* a first, ranged getError with too many positions outside the range
C7_Witness ==
    /\ RangedCallExceedsEps
    /\ request.computed
    /\ ~valid

---------------------------------------------------------------------------
(* __gt__ and __eq__ *)

ErrorKeys == {"connectance", "topology"}

\* the orders the keys can have in the errors dict
KeyOrders == { <<"connectance", "topology">>, <<"topology", "connectance">> }

\* "self_error <= other_error" in the place of line 264
SelfBetterOrEqual(self_error, other_error) == self_error <= other_error

\* line 264
SelfBetter(self_error, other_error) == self_error < other_error

\* the loop of lines 258-266 from the i-th key on
RECURSIVE GtLoop(_, _, _, _, _)
GtLoop(selfErrors, otherErrors, keys, i, someSelfBetter) ==
    IF i > Len(keys) THEN someSelfBetter
    ELSE IF selfErrors[keys[i]] > otherErrors[keys[i]] THEN FALSE
    ELSE GtLoop(selfErrors, otherErrors, keys, i + 1,
                someSelfBetter \/ SelfBetter(selfErrors[keys[i]], otherErrors[keys[i]]))

\* self > other
Gt(selfErrors, otherErrors, keys) == GtLoop(selfErrors, otherErrors, keys, 1, FALSE)

\* self == other; self < other is other.__gt__(self)
Eq(selfErrors, otherErrors, keys) ==
    ~(Gt(otherErrors, selfErrors, keys) \/ Gt(selfErrors, otherErrors, keys))

ParInit ==
    /\ errorsA \in [ErrorKeys -> 0..MaxErr]
    /\ errorsB \in [ErrorKeys -> 0..MaxErr]
    /\ keyOrder \in KeyOrders
    /\ verdict = [op |-> "none"]

Verdict(op, selfErrors, otherErrors) ==
    [op |-> op,
     gt |-> Gt(selfErrors, otherErrors, keyOrder),
     lt |-> Gt(otherErrors, selfErrors, keyOrder),
     eq |-> Eq(selfErrors, otherErrors, keyOrder)]

\* A > B, A < B and A == B
Compare ==
    /\ verdict' = Verdict("A with B", errorsA, errorsB)
    /\ UNCHANGED <<errorsA, errorsB, keyOrder>>
    /\ UNCHANGED restPar

\* B > A, B < A and B == A
CompareReversed ==
    /\ verdict' = Verdict("B with A", errorsB, errorsA)
    /\ UNCHANGED <<errorsA, errorsB, keyOrder>>
    /\ UNCHANGED restPar

\* A > A, A < A and A == A
CompareWithSelf ==
    /\ verdict' = Verdict("A with A", errorsA, errorsA)
    /\ UNCHANGED <<errorsA, errorsB, keyOrder>>
    /\ UNCHANGED restPar

---------------------------------------------------------------------------
(* Claims about the Pareto comparison *)

\* C6: if an organism beats another, or itself, the other does not beat it.
C6_DominanceAsymmetric ==
    verdict.op # "none" => ~(verdict.gt /\ verdict.lt)

\* A beats B on one key and ties on the other
C6_Witness ==
    /\ verdict.op = "A with B"
    /\ verdict.gt
    /\ \E k \in ErrorKeys : errorsA[k] = errorsB[k]

---------------------------------------------------------------------------
(* Specifications: one per operation, the other operations' state at rest *)

TravIdle ==
    /\ other = 0 /\ algorithm = "" /\ rateFromOther = 0
    /\ walk = 0 /\ selected = {} /\ iterations = 0

CrossIdle ==
    /\ population = <<>> /\ result = 0 /\ call = 0 /\ age0 = <<>> /\ gens = <<>>

MutIdle ==
    /\ parent = 0 /\ mutationRate = 0 /\ mutationOdds = <<>>
    /\ newGenome = <<>> /\ cell = <<>> /\ mutated = 0

ErrIdle ==
    /\ registry = <<>> /\ properties = <<>> /\ errors = <<>>
    /\ valid = TRUE /\ request = 0 /\ returned = 0

ParIdle ==
    /\ errorsA = <<>> /\ errorsB = <<>> /\ keyOrder = <<>> /\ verdict = 0

InitTrav == TravInit /\ CrossIdle /\ MutIdle /\ ErrIdle /\ ParIdle

NextTrav ==
    \/ StartWalk
    \/ OuterBody
    \/ OuterExit
    \/ InnerBody
    \/ InnerExit

SpecTrav == InitTrav /\ [][NextTrav]_vars

\* the interpreter runs the call to its end
FairSpecTrav == SpecTrav /\ WF_vars(NextTrav)

InitCross == CrossInit /\ TravIdle /\ MutIdle /\ ErrIdle /\ ParIdle

NextCross == Cross

SpecCross == InitCross /\ [][NextCross]_vars

InitMut == MutInit /\ TravIdle /\ CrossIdle /\ ErrIdle /\ ParIdle

NextMut ==
    \/ KeepCell
    \/ PointMutation
    \/ OffsetMutation
    \/ SignFlipMutation
    \/ WeightSwapMutation
    \/ ReturnMutatedCopy

SpecMut == InitMut /\ [][NextMut]_vars

InitErr == ErrInit /\ TravIdle /\ CrossIdle /\ MutIdle /\ ParIdle

NextErr ==
    \/ GetProperty
    \/ GetError
    \/ CheckDistribution
    \/ CheckPair

SpecErr == InitErr /\ [][NextErr]_vars

InitPar == ParInit /\ TravIdle /\ CrossIdle /\ MutIdle /\ ErrIdle

NextPar ==
    \/ Compare
    \/ CompareReversed
    \/ CompareWithSelf

SpecPareto == InitPar /\ [][NextPar]_vars

===========================================================================
